---- MODULE Spec2Model ----
(***************************************************************************)
(* A model of the copy/export core of mlflow-export-import:                *)
(*   - copy/copy_model_version.py   (copy, _copy_model_version,            *)
(*                                   _add_lineage_tags)                    *)
(*   - experiment/export_experiment.py (export_experiment, _export_run)    *)
(*   - client/http_client.py        (HttpClient)                           *)
(*   - the artifact path resolver exercised by tests/test_models.py        *)
(* Each component is a state machine of its own; Init selects one of them  *)
(* and leaves the others idle.                                             *)
(*                                                                         *)
(* Strings that the code takes apart are sequences of tokens: a tag key or *)
(* a model name is a sequence in which "." is a token of its own, a path   *)
(* or URI is the sequence of its "/"-separated segments.  A Python dict is *)
(* a sequence of <<key, value>> pairs with distinct keys, in insertion     *)
(* order.  An optional value is <<>> (None) or <<v>>.                      *)
(***************************************************************************)
EXTENDS Integers, Sequences, FiniteSets, TLC

\* ------------------------------------------------------------------ bounds

\* Longest alias list of a source model version.
MaxAliases == 3

\* Most runs of the exported experiment.
MaxRuns == 2

\* Latest start time of a run, and latest run-start-time filter.
MaxTime == 2

\* Most segments of the model path below "artifacts".
MaxPathLen == 2

\* ------------------------------------------------------------- variables

VARIABLES
    \* --- copy_model_version.py
    cp_pc,            \* position inside copy / _copy_model_version
    cp_args,          \* arguments of copy(): dst_model_name, dst_experiment_name, copy_lineage_tags
    src_registry,     \* the source server: the model version and its run (read-only)
    alias_error,      \* per alias of the source version: what set_registered_model_alias does
    dst_models,       \* destination: names of the registered models
    dst_runs,         \* destination: ids of the runs
    dst_versions,     \* destination: sequence of model versions
    dst_aliases,      \* destination: set of <<model name, alias, version>>
    dst_calls,        \* destination: the write calls issued, in order
    cp_src_version,   \* local src_version (<<>> before it is fetched)
    cp_dst_run,       \* local dst_run
    cp_dst_version,   \* local dst_version
    cp_source_uri,    \* local source_uri
    cp_tags,          \* local tags
    cp_alias_i,       \* index of the next alias of the loop at lines 82-83
    cp_result,        \* what copy() returned or raised
    \* --- export_experiment.py
    ex_pc,            \* position inside export_experiment
    ex_args,          \* arguments: run_ids (<<>> is None), run_start_time in millis (<<>> is None)
    ex_start_time,    \* the experiment's runs: run id -> run.info.start_time
    ex_fail,          \* run ids for which export_run returns False
    ex_batch,         \* the runs the loop enumerates, in order
    ex_todo,          \* the part of ex_batch not yet enumerated
    ex_exported,      \* run ids handed to export_run, in order
    ok_run_ids,
    failed_run_ids,
    num_runs_exported,
    ex_manifest,      \* <<>> until experiment.json is written
    ex_log,           \* the final log outcome
    ex_result,        \* what export_experiment returned or raised
    \* --- http_client.py
    ht_pc,            \* "new" before HttpClient(...), then "ready" or "auth_error"
    ht_env,           \* process-wide configuration: what get_mlflow_host_token returns
    ht_ctor,          \* the arguments HttpClient was constructed with
    ht_client,        \* the fields of the client: api_uri, token
    ht_sent,          \* the requests put on the network: their uri and Authorization header
    ht_last,          \* the latest call of a verb method and its outcome
    \* --- the artifact path resolver
    rs_pc,            \* "start", "done" after one resolution, "again" after a second
    rs_layout,        \* the layout convention the source URI was built with
    rs_path,          \* the model path the source URI was built with
    rs_run_id,        \* the run id argument
    rs_source,        \* the source argument
    rs_result         \* what the resolver returned or raised

copyVars == <<cp_pc, cp_args, src_registry, alias_error, dst_models, dst_runs,
              dst_versions, dst_aliases, dst_calls, cp_src_version, cp_dst_run,
              cp_dst_version, cp_source_uri, cp_tags, cp_alias_i, cp_result>>

exportVars == <<ex_pc, ex_args, ex_start_time, ex_fail, ex_batch, ex_todo,
                ex_exported, ok_run_ids, failed_run_ids, num_runs_exported,
                ex_manifest, ex_log, ex_result>>

httpVars == <<ht_pc, ht_env, ht_ctor, ht_client, ht_sent, ht_last>>

resolveVars == <<rs_pc, rs_layout, rs_path, rs_run_id, rs_source, rs_result>>

vars == <<copyVars, exportVars, httpVars, resolveVars>>

\* What the actions of one component leave alone.
notCopyVars == <<exportVars, httpVars, resolveVars>>
notExportVars == <<copyVars, httpVars, resolveVars>>
notHttpVars == <<copyVars, exportVars, resolveVars>>
notResolveVars == <<copyVars, exportVars, httpVars>>

\* ------------------------------------------------------- dicts and strings

Range(s) == { s[i] : i \in DOMAIN s }

\* dict.keys()
Keys(d) == { d[i][1] : i \in DOMAIN d }

\* dict.get(k): <<>> when absent, else <<value>>
DictGet(d, k) ==
    IF k \in Keys(d)
    THEN << d[CHOOSE i \in DOMAIN d : d[i][1] = k][2] >>
    ELSE <<>>

\* d[k] = v : replaces the value in place, or appends a new pair
DictSet(d, k, v) ==
    IF k \in Keys(d)
    THEN [ i \in DOMAIN d |-> IF d[i][1] = k THEN <<k, v>> ELSE d[i] ]
    ELSE Append(d, <<k, v>>)

\* str.replace(".", "_") on a tokenised string
ReplaceDots(k) == [ i \in DOMAIN k |-> IF k[i] = "." THEN "_" ELSE k[i] ]

\* "." in s
ContainsDot(k) == \E i \in DOMAIN k : k[i] = "."

\* an f-string joining two tokenised strings with "."
DotJoin(a, b) == a \o <<".">> \o b

\* ------------------------------------------------------ the path resolver

\* The first position of x in s, 0 when x is not a segment of s.
IndexOf(s, x) ==
    IF x \in Range(s)
    THEN CHOOSE i \in DOMAIN s : s[i] = x /\ \A j \in 1..(i-1) : s[j] # x
    ELSE 0

\* The last position of x in s, 0 when x is not a segment of s.
LastIndexOf(s, x) ==
    IF x \in Range(s)
    THEN CHOOSE i \in DOMAIN s : s[i] = x /\ \A j \in (i+1)..Len(s) : s[j] # x
    ELSE 0

\* UnrecognizedArtifactPathError
UnrecognizedArtifactPath == [ok |-> FALSE, path |-> <<>>]

\* extract_model_path looking for the "artifacts" marker alone: it cuts
\* after the last marker, also in a source that embeds no run id.
extract_model_path_by_marker(source, run_id) ==
    LET idx == LastIndexOf(source, "artifacts") IN
    IF idx = 0
    THEN UnrecognizedArtifactPath
    ELSE [ok |-> TRUE, path |-> SubSeq(source, idx + 1, Len(source))]

\* extract_model_path that ignores the run id and cuts after the first
\* "artifacts" marker of the source.
extract_model_path_first_marker(source, run_id) ==
    LET idx == IndexOf(source, "artifacts") IN
    IF idx = 0
    THEN UnrecognizedArtifactPath
    ELSE [ok |-> TRUE, path |-> SubSeq(source, idx + 1, Len(source))]

\* Strips everything up to and including the run id and the "artifacts"
\* marker that follows it; fails when the source holds no such prefix.
extract_model_path(source, run_id) ==
    LET idx == IndexOf(source, run_id) IN
    IF idx = 0 \/ idx + 1 > Len(source)
    THEN UnrecognizedArtifactPath
    ELSE IF source[idx + 1] # "artifacts"
         THEN UnrecognizedArtifactPath
         ELSE [ok |-> TRUE, path |-> SubSeq(source, idx + 2, Len(source))]

\* ------------------------------------------------- copy_model_version.py

\* ExportTags.PREFIX_ROOT
PREFIX_ROOT == <<"mlflow_exim">>

\* model_utils.is_unity_catalog_model: a catalog-qualified (multi-segment) name
is_unity_catalog_model(name) == ContainsDot(name)

ClassicModelName == <<"m">>
UCModelName == <<"cat", ".", "sch", ".", "m">>

SrcRunId == "run1"
DstRunId == "run2"
SrcArtifactUri == <<"dbfs:", "databricks", "mlflow-tracking", "1", SrcRunId, "artifacts">>
DstArtifactUri == <<"dbfs:", "databricks", "mlflow-tracking", "2", DstRunId, "artifacts">>
\* What the source version's "source" field may hold: a location under its
\* run's artifact root, or one that does not embed the run id.
SrcSourceChoices ==
    { SrcArtifactUri \o <<"models", "my_model">>,
      <<"s3:", "bucket", "models", "my_model">> }

SrcTrackingUri == "databricks://src"
DstTrackingUri == "databricks://dst"

\* Tag maps a source model version may carry.
SrcTagChoices ==
    { <<>>,
      << <<<<"team">>, "a">> >>,
      << <<<<"a", ".", "b">>, "x">>, <<<<"a", "_", "b">>, "y">> >> }

\* Tag maps the source run may carry (run.data.tags).
SrcRunTagChoices ==
    { <<>>,
      << <<<<"mlflow", ".", "user">>, "alice">> >>,
      << <<<<"mlflow", ".", "databricks", ".", "workspaceURL">>, "ws">>,
         <<<<"mlflow", ".", "user">>, "alice">> >> }

Stages == {"None", "Production"}

\* copy_utils.add_tag: copies src_tags[key] to dst_tags[prefix.key] when present
add_tag(src_tags, dst_tags, key, prefix) ==
    LET val == DictGet(src_tags, key) IN
    IF val = <<>> THEN dst_tags ELSE DictSet(dst_tags, DotJoin(prefix, key), val[1])

\* { k.replace(".","_"):v for k,v in tags.items() }: a later pair overwrites
\* an earlier one whose key becomes the same.
RECURSIVE SanitizeFrom(_, _, _)
SanitizeFrom(tags, i, acc) ==
    IF i > Len(tags) THEN acc
    ELSE SanitizeFrom(tags, i + 1, DictSet(acc, ReplaceDots(tags[i][1]), tags[i][2]))

SanitizeKeys(tags) == SanitizeFrom(tags, 1, <<>>)

\* _add_lineage_tags, after the run has been resolved (lines 95-112)
add_lineage_tags(src_version, run_tags, dst_model_name) ==
    LET prefix == DotJoin(PREFIX_ROOT, <<"src_run">>)
        t0 == src_version.tags
        t1 == DictSet(t0, DotJoin(PREFIX_ROOT, <<"src_version", ".", "name">>), src_version.name)
        t2 == DictSet(t1, DotJoin(PREFIX_ROOT, <<"src_version", ".", "version">>), src_version.version)
        t3 == DictSet(t2, DotJoin(PREFIX_ROOT, <<"src_version", ".", "run_id">>), src_version.run_id)
        t4 == DictSet(t3, DotJoin(PREFIX_ROOT, <<"src_client", ".", "tracking_uri">>), SrcTrackingUri)
        t5 == DictSet(t4, DotJoin(PREFIX_ROOT, <<"mlflow_exim", ".", "dst_client", ".", "tracking_uri">>), DstTrackingUri)
        t6 == add_tag(run_tags, t5, <<"mlflow", ".", "databricks", ".", "workspaceURL">>, prefix)
        t7 == add_tag(run_tags, t6, <<"mlflow", ".", "databricks", ".", "webappURL">>, prefix)
        t8 == add_tag(run_tags, t7, <<"mlflow", ".", "databricks", ".", "workspaceID">>, prefix)
        t9 == add_tag(run_tags, t8, <<"mlflow", ".", "user">>, prefix)
    IN  IF is_unity_catalog_model(dst_model_name) THEN SanitizeKeys(t9) ELSE t9

\* The tag map handed to create_model_version (lines 65-68).
compute_tags(src_version, run_tags, dst_model_name, copy_lineage_tags) ==
    IF copy_lineage_tags
    THEN add_lineage_tags(src_version, run_tags, dst_model_name)
    ELSE src_version.tags

\* Versions of one registered model at the destination.
VersionsOf(versions, name) == { i \in DOMAIN versions : versions[i].name = name }

\* A version that an earlier copy left at the destination.
PriorVersion(name) ==
    [name |-> name, version |-> 1, source |-> DstArtifactUri \o <<"old">>,
     run_id |-> "run0", tags |-> <<>>, description |-> "old", stage |-> "None"]

CopyInit ==
    /\ cp_pc = "create_registered_model"
    /\ cp_args \in [dst_model_name : {ClassicModelName, UCModelName},
                    dst_experiment_name : {<<>>, <<"exp">>},
                    copy_lineage_tags : BOOLEAN]
    /\ \E n \in 0..MaxAliases, tags \in SrcTagChoices, rtags \in SrcRunTagChoices,
          stage \in Stages, source \in SrcSourceChoices :
          /\ src_registry =
                [version |-> [name |-> "src_model", version |-> "7", run_id |-> SrcRunId,
                              source |-> source,
                              tags |-> tags, description |-> "d",
                              current_stage |-> stage,
                              aliases |-> [i \in 1..n |-> i]],
                 run |-> [run_id |-> SrcRunId, artifact_uri |-> SrcArtifactUri,
                          tags |-> rtags]]
          /\ alias_error \in [1..n -> {"none", "MlflowException"}]
    /\ \E existed \in BOOLEAN :
          /\ dst_models = IF existed THEN {cp_args.dst_model_name} ELSE {}
          /\ dst_versions = IF existed THEN <<PriorVersion(cp_args.dst_model_name)>> ELSE <<>>
    /\ dst_runs = {}
    /\ dst_aliases = {}
    /\ dst_calls = <<>>
    /\ cp_src_version = <<>>
    /\ cp_dst_run = <<>>
    /\ cp_dst_version = <<>>
    /\ cp_source_uri = <<>>
    /\ cp_tags = <<>>
    /\ cp_alias_i = 1
    /\ cp_result = [kind |-> "running"]

CopyIdle ==
    /\ cp_pc = "idle"
    /\ cp_args = [dst_model_name |-> ClassicModelName, dst_experiment_name |-> <<>>,
                  copy_lineage_tags |-> FALSE]
    /\ src_registry = <<>>
    /\ alias_error = <<>>
    /\ dst_models = {}
    /\ dst_runs = {}
    /\ dst_versions = <<>>
    /\ dst_aliases = {}
    /\ dst_calls = <<>>
    /\ cp_src_version = <<>>
    /\ cp_dst_run = <<>>
    /\ cp_dst_version = <<>>
    /\ cp_source_uri = <<>>
    /\ cp_tags = <<>>
    /\ cp_alias_i = 1
    /\ cp_result = [kind |-> "running"]

\* CopyRaise with the exception swallowed: the copy reports success.
CopyRaiseAsReturn(step) ==
    /\ cp_pc' = "returned"
    /\ cp_result' = [kind |-> "returned", step |-> step]

\* An exception leaves copy(): nothing after the failing call runs.
CopyRaise(step) ==
    /\ cp_pc' = "raised"
    /\ cp_result' = [kind |-> "raised", step |-> step]

\* copy line 45: copy_utils.create_registered_model (an existing model is not an error)
\* CreateRegisteredModel that replaces a registered model already at the
\* destination, dropping the versions it had.
CreateRegisteredModelReplacing ==
    /\ cp_pc = "create_registered_model"
    /\ \/ /\ dst_models' = dst_models \cup {cp_args.dst_model_name}
          /\ dst_versions' = <<>>
          /\ dst_calls' = Append(dst_calls, "create_registered_model")
          /\ cp_pc' = "get_src_version"
          /\ UNCHANGED cp_result
       \/ /\ CopyRaise("create_registered_model")
          /\ UNCHANGED <<dst_models, dst_versions, dst_calls>>
    /\ UNCHANGED <<cp_args, src_registry, alias_error, dst_runs,
                   dst_aliases, cp_src_version, cp_dst_run, cp_dst_version,
                   cp_source_uri, cp_tags, cp_alias_i>>
    /\ UNCHANGED notCopyVars

CreateRegisteredModel ==
    /\ cp_pc = "create_registered_model"
    /\ \/ /\ dst_models' = dst_models \cup {cp_args.dst_model_name}
          /\ dst_calls' = Append(dst_calls, "create_registered_model")
          /\ cp_pc' = "get_src_version"
          /\ UNCHANGED cp_result
       \/ /\ CopyRaise("create_registered_model")
          /\ UNCHANGED <<dst_models, dst_calls>>
    /\ UNCHANGED <<cp_args, src_registry, alias_error, dst_runs, dst_versions,
                   dst_aliases, cp_src_version, cp_dst_run, cp_dst_version,
                   cp_source_uri, cp_tags, cp_alias_i>>
    /\ UNCHANGED notCopyVars

\* copy line 46: src_client.get_model_version
GetSrcVersion ==
    /\ cp_pc = "get_src_version"
    /\ \/ /\ cp_src_version' = <<src_registry.version>>
          /\ cp_pc' = "resolve_run"
          /\ UNCHANGED cp_result
       \/ /\ CopyRaise("get_model_version")
          /\ UNCHANGED cp_src_version
    /\ UNCHANGED <<cp_args, src_registry, alias_error, dst_models, dst_runs,
                   dst_versions, dst_aliases, dst_calls, cp_dst_run, cp_dst_version,
                   cp_source_uri, cp_tags, cp_alias_i>>
    /\ UNCHANGED notCopyVars

\* _copy_model_version lines 58-61: copy the run into the destination
\* experiment (copy_run._copy), or use the source run in place
ResolveRun ==
    /\ cp_pc = "resolve_run"
    /\ \/ /\ cp_args.dst_experiment_name # <<>>
          /\ dst_runs' = dst_runs \cup {DstRunId}
          /\ dst_calls' = Append(dst_calls, "create_run")
          /\ cp_dst_run' = <<[run_id |-> DstRunId, artifact_uri |-> DstArtifactUri,
                              tags |-> src_registry.run.tags]>>
          /\ cp_pc' = "source_uri"
          /\ UNCHANGED cp_result
       \/ /\ cp_args.dst_experiment_name = <<>>
          /\ cp_dst_run' = <<src_registry.run>>
          /\ cp_pc' = "source_uri"
          /\ UNCHANGED <<dst_runs, dst_calls, cp_result>>
       \/ /\ CopyRaise("resolve_run")
          /\ UNCHANGED <<dst_runs, dst_calls, cp_dst_run>>
    /\ UNCHANGED <<cp_args, src_registry, alias_error, dst_models, dst_versions,
                   dst_aliases, cp_src_version, cp_dst_version, cp_source_uri,
                   cp_tags, cp_alias_i>>
    /\ UNCHANGED notCopyVars

\* copy_utils.get_model_name: the model path of a version's source
get_model_name(source, run_id) == extract_model_path(source, run_id)

\* _copy_model_version lines 63-64
ComputeSourceUri ==
    /\ cp_pc = "source_uri"
    /\ LET mlflow_model_name == get_model_name(cp_src_version[1].source,
                                               cp_src_version[1].run_id) IN
       \/ /\ mlflow_model_name.ok
          /\ cp_source_uri' = cp_dst_run[1].artifact_uri \o mlflow_model_name.path
          /\ cp_pc' = "tags"
          /\ UNCHANGED cp_result
       \/ /\ ~mlflow_model_name.ok
          /\ CopyRaise("get_model_name")
          /\ UNCHANGED cp_source_uri
    /\ UNCHANGED <<cp_args, src_registry, alias_error, dst_models, dst_runs,
                   dst_versions, dst_aliases, dst_calls, cp_src_version, cp_dst_run,
                   cp_dst_version, cp_tags, cp_alias_i>>
    /\ UNCHANGED notCopyVars

\* _copy_model_version lines 65-68; _add_lineage_tags fetches the source run
\* again (lines 92-93) when the run was copied, and that call may fail
ComputeTags ==
    /\ cp_pc = "tags"
    /\ \/ /\ cp_tags' = compute_tags(cp_src_version[1], src_registry.run.tags,
                                     cp_args.dst_model_name, cp_args.copy_lineage_tags)
          /\ cp_pc' = "create_model_version"
          /\ UNCHANGED cp_result
       \/ /\ cp_args.copy_lineage_tags
          /\ cp_src_version[1].run_id # cp_dst_run[1].run_id
          /\ CopyRaise("get_run")
          /\ UNCHANGED cp_tags
    /\ UNCHANGED <<cp_args, src_registry, alias_error, dst_models, dst_runs,
                   dst_versions, dst_aliases, dst_calls, cp_src_version, cp_dst_run,
                   cp_dst_version, cp_source_uri, cp_alias_i>>
    /\ UNCHANGED notCopyVars

\* _copy_model_version lines 70-77: dst_client.create_model_version
CreateModelVersion ==
    /\ cp_pc = "create_model_version"
    /\ \/ LET name == cp_args.dst_model_name
              version == Cardinality(VersionsOf(dst_versions, name)) + 1
          IN  /\ dst_versions' = Append(dst_versions,
                    [name |-> name, version |-> version, source |-> cp_source_uri,
                     run_id |-> cp_dst_run[1].run_id, tags |-> cp_tags,
                     description |-> cp_src_version[1].description, stage |-> "None"])
              /\ cp_dst_version' = <<[name |-> name, version |-> version]>>
              /\ dst_calls' = Append(dst_calls, "create_model_version")
              /\ cp_pc' = "transition_stage"
              /\ UNCHANGED cp_result
       \/ /\ CopyRaise("create_model_version")
          /\ UNCHANGED <<dst_versions, cp_dst_version, dst_calls>>
    /\ UNCHANGED <<cp_args, src_registry, alias_error, dst_models, dst_runs,
                   dst_aliases, cp_src_version, cp_dst_run, cp_source_uri, cp_tags,
                   cp_alias_i>>
    /\ UNCHANGED notCopyVars

\* transition_model_version_stage on the destination registry
\* A stage transition that leaves the version's stage as it was.
SetStageKeep(versions, name, version, stage) == versions

SetStage(versions, name, version, stage) ==
    [ i \in DOMAIN versions |->
        IF versions[i].name = name /\ versions[i].version = version
        THEN [versions[i] EXCEPT !.stage = stage]
        ELSE versions[i] ]

\* _copy_model_version lines 78-79
TransitionStage ==
    /\ cp_pc = "transition_stage"
    /\ \/ /\ ~is_unity_catalog_model(cp_dst_version[1].name)
          /\ dst_versions' = SetStage(dst_versions, cp_dst_version[1].name,
                                      cp_dst_version[1].version,
                                      cp_src_version[1].current_stage)
          /\ dst_calls' = Append(dst_calls, "transition_model_version_stage")
          /\ cp_pc' = "aliases"
          /\ UNCHANGED cp_result
       \/ /\ ~is_unity_catalog_model(cp_dst_version[1].name)
          /\ CopyRaise("transition_model_version_stage")
          /\ UNCHANGED <<dst_versions, dst_calls>>
       \/ /\ is_unity_catalog_model(cp_dst_version[1].name)
          /\ cp_pc' = "aliases"
          /\ UNCHANGED <<dst_versions, dst_calls, cp_result>>
    /\ UNCHANGED <<cp_args, src_registry, alias_error, dst_models, dst_runs,
                   dst_aliases, cp_src_version, cp_dst_run, cp_dst_version,
                   cp_source_uri, cp_tags, cp_alias_i>>
    /\ UNCHANGED notCopyVars

\* set_registered_model_alias on the destination registry: an alias names
\* one version of the model
PutAlias(aliases, name, alias, version) ==
    { a \in aliases : ~(a[1] = name /\ a[2] = alias) } \cup {<<name, alias, version>>}

\* Where the alias loop goes when set_registered_model_alias raises
\* MlflowException: the handler at lines 84-85 encloses the whole loop, so the
\* loop is left and the remaining aliases are not attempted.
AfterAliasException == "refetch"

\* _copy_model_version lines 81-85: one iteration of the alias loop
SetAlias ==
    /\ cp_pc = "aliases"
    /\ cp_alias_i <= Len(cp_src_version[1].aliases)
    /\ \/ /\ alias_error[cp_alias_i] = "none"
          /\ dst_aliases' = PutAlias(dst_aliases, cp_dst_version[1].name,
                                     cp_src_version[1].aliases[cp_alias_i],
                                     cp_dst_version[1].version)
          /\ dst_calls' = Append(dst_calls, "set_registered_model_alias")
          /\ cp_alias_i' = cp_alias_i + 1
          /\ UNCHANGED cp_pc
       \/ /\ alias_error[cp_alias_i] = "MlflowException"
          /\ cp_pc' = AfterAliasException
          /\ cp_alias_i' = cp_alias_i + 1
          /\ UNCHANGED <<dst_aliases, dst_calls>>
    /\ UNCHANGED <<cp_args, src_registry, alias_error, dst_models, dst_runs,
                   dst_versions, cp_src_version, cp_dst_run, cp_dst_version,
                   cp_source_uri, cp_tags, cp_result>>
    /\ UNCHANGED notCopyVars

\* the alias loop ends normally
AliasLoopEnd ==
    /\ cp_pc = "aliases"
    /\ cp_alias_i > Len(cp_src_version[1].aliases)
    /\ cp_pc' = "refetch"
    /\ UNCHANGED <<cp_args, src_registry, alias_error, dst_models, dst_runs,
                   dst_versions, dst_aliases, dst_calls, cp_src_version, cp_dst_run,
                   cp_dst_version, cp_source_uri, cp_tags, cp_alias_i, cp_result>>
    /\ UNCHANGED notCopyVars

\* _copy_model_version line 87 and copy lines 50-54
RefetchAndReturn ==
    /\ cp_pc = "refetch"
    /\ \/ /\ cp_pc' = "returned"
          /\ cp_result' =
                [kind |-> "returned",
                 dst_version |-> dst_versions[CHOOSE i \in DOMAIN dst_versions :
                                    /\ dst_versions[i].name = cp_dst_version[1].name
                                    /\ dst_versions[i].version = cp_dst_version[1].version]]
       \/ CopyRaise("refetch")
    /\ UNCHANGED <<cp_args, src_registry, alias_error, dst_models, dst_runs,
                   dst_versions, dst_aliases, dst_calls, cp_src_version, cp_dst_run,
                   cp_dst_version, cp_source_uri, cp_tags, cp_alias_i>>
    /\ UNCHANGED notCopyVars

CopyNext ==
    \/ CreateRegisteredModel
    \/ GetSrcVersion
    \/ ResolveRun
    \/ ComputeSourceUri
    \/ ComputeTags
    \/ CreateModelVersion
    \/ TransitionStage
    \/ SetAlias
    \/ AliasLoopEnd
    \/ RefetchAndReturn

\* ------------------------------------------------- export_experiment.py

\* All orderings of a finite set.
Perms(S) ==
    { q \in [1..Cardinality(S) -> S] : \A i, j \in DOMAIN q : q[i] = q[j] => i = j }

\* Lists of at most n elements of S.
SeqsUpTo(S, n) == UNION { [1..k -> S] : k \in 0..n }

\* Python truthiness of an optional number: None and 0 are false.
Truthy(opt) == opt # <<>> /\ opt[1] # 0

\* SkipRun with the check of line 116 left out.
SkipRunNever(run_start_time, start_time) == FALSE

\* _export_run line 116: the run started before the filter
SkipRun(run_start_time, start_time) ==
    Truthy(run_start_time) /\ start_time < run_start_time[1]

\* SearchRunsIterator with the filter of lines 75-76: the runs the server
\* returns for "start_time > T", or all runs without a filter
SearchRuns(start_times, run_start_time) ==
    { r \in DOMAIN start_times :
        Truthy(run_start_time) => start_times[r] > run_start_time[1] }

\* RecordOutcome with the result of export_run ignored.
RecordOutcomeAlwaysOk(ok, failed, run_id, is_success) == <<Append(ok, run_id), failed>>

\* _export_run lines 133-136: <<ok_run_ids, failed_run_ids>> after the outcome
RecordOutcome(ok, failed, run_id, is_success) ==
    IF is_success
    THEN <<Append(ok, run_id), failed>>
    ELSE <<ok, Append(failed, run_id)>>

\* export_experiment lines 102-108: the final log call
FinalLog(num_exported, failed) ==
    IF num_exported = 0 THEN "warning"
    ELSE IF Len(failed) = 0 THEN "info" ELSE "info_failed"

\* The count of line 72 / line 83 after one loop iteration: the loop adds one
\* whether or not _export_run skipped the run.
CountRun(n, skipped) == n + 1

ExportInit ==
    /\ ex_pc = "start"
    /\ \E n \in 0..MaxRuns :
          /\ ex_start_time \in [1..n -> 0..MaxTime]
          /\ ex_fail \in SUBSET (1..n)
          /\ \E ids \in SeqsUpTo(1..n, n), given \in BOOLEAN,
                t \in {<<>>} \cup { <<x>> : x \in 0..MaxTime } :
                /\ ids = <<>> => given
                /\ ex_args = [run_ids |-> IF given THEN <<ids>> ELSE <<>>,
                              run_start_time |-> t]
    /\ ex_batch = <<>>
    /\ ex_todo = <<>>
    /\ ex_exported = <<>>
    /\ ok_run_ids = <<>>
    /\ failed_run_ids = <<>>
    /\ num_runs_exported = 0
    /\ ex_manifest = <<>>
    /\ ex_log = "none"
    /\ ex_result = [kind |-> "running"]

ExportIdle ==
    /\ ex_pc = "idle"
    /\ ex_args = [run_ids |-> <<>>, run_start_time |-> <<>>]
    /\ ex_start_time = <<>>
    /\ ex_fail = {}
    /\ ex_batch = <<>>
    /\ ex_todo = <<>>
    /\ ex_exported = <<>>
    /\ ok_run_ids = <<>>
    /\ failed_run_ids = <<>>
    /\ num_runs_exported = 0
    /\ ex_manifest = <<>>
    /\ ex_log = "none"
    /\ ex_result = [kind |-> "running"]

\* An exception leaves export_experiment: no handler encloses the loop.
ExportRaise(step) ==
    /\ ex_pc' = "raised"
    /\ ex_result' = [kind |-> "raised", step |-> step]

\* "if run_ids:" at line 67: None and the empty list take the search branch
ExplicitRunIds == ex_args.run_ids # <<>> /\ ex_args.run_ids[1] # <<>>

\* export_experiment lines 48-83, up to the first loop iteration
ExportStart ==
    /\ ex_pc = "start"
    /\ \/ /\ ExplicitRunIds
          /\ ex_batch' = ex_args.run_ids[1]
          /\ ex_pc' = "loop"
          /\ UNCHANGED ex_result
       \/ /\ ~ExplicitRunIds
          /\ ex_batch' \in Perms(SearchRuns(ex_start_time, ex_args.run_start_time))
          /\ ex_pc' = "loop"
          /\ UNCHANGED ex_result
       \/ /\ ExportRaise("get_experiment")
          /\ UNCHANGED ex_batch
    /\ ex_todo' = ex_batch'
    /\ UNCHANGED <<ex_args, ex_start_time, ex_fail, ex_exported, ok_run_ids,
                   failed_run_ids, num_runs_exported, ex_manifest, ex_log>>
    /\ UNCHANGED notExportVars

\* One iteration of the loop at lines 68-72 or 80-83, with _export_run
ExportLoopStep ==
    /\ ex_pc = "loop"
    /\ ex_todo # <<>>
    /\ LET run_id == Head(ex_todo)
           skipped == SkipRun(ex_args.run_start_time, ex_start_time[run_id])
           lists == RecordOutcome(ok_run_ids, failed_run_ids, run_id,
                                  run_id \notin ex_fail)
       IN  \/ /\ skipped
              /\ ex_todo' = Tail(ex_todo)
              /\ num_runs_exported' = CountRun(num_runs_exported, TRUE)
              /\ UNCHANGED <<ex_pc, ex_result, ex_exported, ok_run_ids, failed_run_ids>>
           \/ /\ ~skipped
              /\ ex_exported' = Append(ex_exported, run_id)
              /\ ok_run_ids' = lists[1]
              /\ failed_run_ids' = lists[2]
              /\ ex_todo' = Tail(ex_todo)
              /\ num_runs_exported' = CountRun(num_runs_exported, FALSE)
              /\ UNCHANGED <<ex_pc, ex_result>>
           \/ /\ ~skipped
              /\ ex_exported' = Append(ex_exported, run_id)
              /\ ExportRaise("export_run")
              /\ UNCHANGED <<ex_todo, num_runs_exported, ok_run_ids, failed_run_ids>>
           \/ /\ ExportRaise(IF ExplicitRunIds THEN "get_run" ELSE "search_runs")
              /\ UNCHANGED <<ex_todo, num_runs_exported, ex_exported, ok_run_ids,
                             failed_run_ids>>
    /\ UNCHANGED <<ex_args, ex_start_time, ex_fail, ex_batch, ex_manifest, ex_log>>
    /\ UNCHANGED notExportVars

\* export_experiment lines 85-109: the manifest, the final log, the return
ExportFinish ==
    /\ ex_pc = "loop"
    /\ ex_todo = <<>>
    /\ ex_manifest' = <<[num_total_runs |-> num_runs_exported,
                         num_ok_runs |-> Len(ok_run_ids),
                         num_failed_runs |-> Len(failed_run_ids),
                         failed_runs |-> failed_run_ids,
                         runs |-> ok_run_ids]>>
    /\ ex_log' = FinalLog(num_runs_exported, failed_run_ids)
    /\ ex_pc' = "done"
    /\ ex_result' = [kind |-> "returned", ok |-> Len(ok_run_ids),
                     failed |-> Len(failed_run_ids)]
    /\ UNCHANGED <<ex_args, ex_start_time, ex_fail, ex_batch, ex_todo, ex_exported,
                   ok_run_ids, failed_run_ids, num_runs_exported>>
    /\ UNCHANGED notExportVars

ExportNext ==
    \/ ExportStart
    \/ ExportLoopStep
    \/ ExportFinish

\* ------------------------------------------------------- http_client.py

Verbs == {"get", "post", "put", "patch", "delete"}

\* Status codes a server answers with, on both sides of the two limits of
\* _check_response.
StatusCodes == {199, 200, 204, 299, 300, 404, 500}

\* Payloads a caller hands to a verb method: None, an empty (falsy) dict, a
\* non-empty dict.
Payloads == {<<>>, <<"empty">>, <<"d">>}

\* Python truthiness of a payload
TruthyPayload(data) == data # <<>> /\ data # <<"empty">>

\* json.dumps
JsonDumps(x) == <<"json", x>>

\* What the verb method puts on the wire as parameters or body
\* (lines 38, 52-53, 67, 81, 95-96).
Submitted(verb, data) ==
    IF verb \in {"post", "delete"}
    THEN (IF TruthyPayload(data) THEN <<JsonDumps(data[1])>> ELSE <<>>)
    ELSE data

\* The params argument the verb method hands to _check_response
\* (lines 39, 54, 68, 82, 97): _put and _patch hand it none.
CheckedParams(verb, data) ==
    IF verb \in {"put", "patch"} THEN <<>> ELSE Submitted(verb, data)

\* _check_response line 120
IsErrorStatus(status_code) == status_code < 200 \/ status_code > 299

\* _get_response_text: the parsed body, or the raw text when it is no JSON
get_response_text(rsp) ==
    IF rsp.is_json THEN <<"parsed", rsp.text>> ELSE <<"raw", rsp.text>>

\* The MlflowExportImportException of _check_response lines 121-128
RemoteApiError(rsp, params) ==
    [message |-> rsp.reason,
     http_status_code |-> rsp.status_code,
     http_reason |-> rsp.reason,
     uri |-> rsp.url,
     params |-> params,
     text |-> get_response_text(rsp)]

\* _mk_headers
mk_headers(token) ==
    [user_agent |-> "USER_AGENT",
     authorization |-> IF token # <<>> THEN <<"Bearer", token[1]>> ELSE <<>>]

\* _mk_uri
mk_uri(api_uri, resource) == api_uri \o <<resource>>

\* HostMissing with the check of line 25 left out.
HostMissingNever(host) == FALSE

\* __init__ line 25: no host was given and none was resolved
HostMissing(host) == host = <<>>

HttpInit ==
    /\ ht_pc = "new"
    /\ ht_env \in [host : {<<>>, <<"envhost">>}, token : {<<>>, <<"envtoken">>}]
    /\ ht_ctor = [api_name |-> "none", host |-> <<>>, token |-> <<>>]
    /\ ht_client = [api_uri |-> <<"?">>, token |-> <<>>]
    /\ ht_sent = {}
    /\ ht_last = [kind |-> "none"]

HttpIdle ==
    /\ ht_pc = "idle"
    /\ ht_env = [host |-> <<>>, token |-> <<>>]
    /\ ht_ctor = [api_name |-> "none", host |-> <<>>, token |-> <<>>]
    /\ ht_client = [api_uri |-> <<"?">>, token |-> <<>>]
    /\ ht_sent = {}
    /\ ht_last = [kind |-> "none"]

\* HttpClient.__init__ (DatabricksHttpClient and MlflowHttpClient fix api_name)
Construct(api_name, host, token) ==
    /\ ht_pc = "new"
    /\ ht_ctor' = [api_name |-> api_name, host |-> host, token |-> token]
    /\ LET resolved == IF host = <<>> THEN ht_env ELSE [host |-> host, token |-> token] IN
       \/ /\ host = <<>>
          /\ HostMissing(resolved.host)
          /\ ht_pc' = "auth_error"
          /\ ht_last' = [kind |-> "AuthConfigurationError", http_status_code |-> 401]
          /\ UNCHANGED ht_client
       \/ /\ ~(host = <<>> /\ HostMissing(resolved.host))
          /\ ht_client' = [api_uri |-> resolved.host \o <<api_name>>,
                           token |-> resolved.token]
          /\ ht_pc' = "ready"
          /\ UNCHANGED ht_last
    /\ UNCHANGED <<ht_env, ht_sent>>
    /\ UNCHANGED notHttpVars

HttpConstruct ==
    \E api_name \in {"api/2.0", "api/2.0/mlflow"},
       host \in {<<>>, <<"argHost">>}, token \in {<<>>, <<"argToken">>} :
        Construct(api_name, host, token)

\* One call of get, post, put, patch or delete: the request, _check_response,
\* then json.loads of the body
HttpCall ==
    /\ ht_pc = "ready"
    /\ \E verb \in Verbs, data \in Payloads :
        LET uri == mk_uri(ht_client.api_uri, "resource")
            headers == mk_headers(ht_client.token)
            call == [verb |-> verb, data |-> data, submitted |-> Submitted(verb, data)]
        IN
        /\ ht_sent' = ht_sent \cup {[uri |-> uri, authorization |-> headers.authorization]}
        /\ \/ \E status_code \in StatusCodes, is_json \in BOOLEAN :
                LET rsp == [status_code |-> status_code, reason |-> <<"reason", status_code>>,
                            url |-> uri, text |-> "body", is_json |-> is_json]
                IN  \/ /\ IsErrorStatus(rsp.status_code)
                       /\ ht_last' = [kind |-> "RemoteApiError", call |-> call, rsp |-> <<rsp>>,
                                      error |-> <<RemoteApiError(rsp, CheckedParams(verb, data))>>]
                    \/ /\ ~IsErrorStatus(rsp.status_code)
                       /\ rsp.is_json
                       /\ ht_last' = [kind |-> "returned", call |-> call, rsp |-> <<rsp>>,
                                      error |-> <<>>]
                    \/ /\ ~IsErrorStatus(rsp.status_code)
                       /\ ~rsp.is_json
                       /\ ht_last' = [kind |-> "JSONDecodeError", call |-> call, rsp |-> <<rsp>>,
                                      error |-> <<>>]
           \/ ht_last' = [kind |-> "RequestException", call |-> call, rsp |-> <<>>,
                          error |-> <<>>]
    /\ UNCHANGED <<ht_pc, ht_env, ht_ctor, ht_client>>
    /\ UNCHANGED notHttpVars

HttpNext ==
    \/ HttpConstruct
    \/ HttpCall

\* ------------------------------------------------------ resolver runs

\* Run ids (tests/test_models.py line 4, and one more).
RunIds == {"48cf29167ddb4e098da780f0959fb4cf", "0a1b"}

\* Experiment ids of the two test URIs.
ExperimentIds == {"4072937019901104", "3"}

\* Segments a model path is made of.
PathSegments == {"models", "my_model", "artifacts"} \cup RunIds

\* Model paths of one to MaxPathLen segments.
ModelPaths == UNION { [1..k -> PathSegments] : k \in 1..MaxPathLen }

\* The two recognized layouts (tests/test_models.py lines 8 and 12).
SourceUri(layout, exp, run_id, path) ==
    IF layout = "databricks"
    THEN <<"dbfs:", "databricks", "mlflow-tracking", exp, run_id, "artifacts">> \o path
    ELSE <<"", "opt", "mlflow_server", "local_mlrun", "mlruns", exp, run_id, "artifacts">>
            \o path

ResolveInit ==
    /\ rs_pc = "start"
    /\ rs_layout \in {"databricks", "oss"}
    /\ rs_path \in ModelPaths
    /\ rs_run_id \in RunIds
    /\ \E exp \in ExperimentIds : rs_source = SourceUri(rs_layout, exp, rs_run_id, rs_path)
    /\ rs_result = UnrecognizedArtifactPath

ResolveIdle ==
    /\ rs_pc = "idle"
    /\ rs_layout = "none"
    /\ rs_path = <<>>
    /\ rs_run_id = "none"
    /\ rs_source = <<>>
    /\ rs_result = UnrecognizedArtifactPath

\* _test_extract_model_path: the resolver applied to a source URI
Resolve ==
    /\ rs_pc = "start"
    /\ rs_result' = extract_model_path(rs_source, rs_run_id)
    /\ rs_pc' = "done"
    /\ UNCHANGED <<rs_layout, rs_path, rs_run_id, rs_source>>
    /\ UNCHANGED notResolveVars

\* The resolver applied to the path it returned
ResolveAgain ==
    /\ rs_pc = "done"
    /\ rs_result.ok
    /\ rs_source' = rs_result.path
    /\ rs_result' = extract_model_path(rs_result.path, rs_run_id)
    /\ rs_pc' = "again"
    /\ UNCHANGED <<rs_layout, rs_path, rs_run_id>>
    /\ UNCHANGED notResolveVars

ResolveNext ==
    \/ Resolve
    \/ ResolveAgain

\* ----------------------------------------------------- specifications

\* One component runs; the others stay idle.
InitCopy == CopyInit /\ ExportIdle /\ HttpIdle /\ ResolveIdle

InitExport == ExportInit /\ CopyIdle /\ HttpIdle /\ ResolveIdle

InitHttp == HttpInit /\ CopyIdle /\ ExportIdle /\ ResolveIdle

InitResolve == ResolveInit /\ CopyIdle /\ ExportIdle /\ HttpIdle

Init == InitCopy \/ InitExport \/ InitHttp \/ InitResolve

Next == CopyNext \/ ExportNext \/ HttpNext \/ ResolveNext

SpecCopy == InitCopy /\ [][CopyNext]_vars

SpecExport == InitExport /\ [][ExportNext]_vars

SpecHttp == InitHttp /\ [][HttpNext]_vars

SpecResolve == InitResolve /\ [][ResolveNext]_vars

Spec == Init /\ [][Next]_vars

\* ---------------------------------------------------- claims on the copy

\* The source version has three aliases and set_registered_model_alias
\* fails for exactly one of them.
OneOfThreeAliasesFails ==
    /\ Len(alias_error) = 3
    /\ Cardinality({ i \in DOMAIN alias_error : alias_error[i] = "MlflowException" }) = 1

\* The destination version this copy created is in the destination registry.
DstVersionCreated ==
    /\ cp_dst_version # <<>>
    /\ \E i \in DOMAIN dst_versions :
          /\ dst_versions[i].name = cp_dst_version[1].name
          /\ dst_versions[i].version = cp_dst_version[1].version

\* C1: when exactly one of three aliases fails to be set, whichever it is, a
\* copy that has returned has created the destination version and has set
\* the other two aliases on it.
C1_OtherAliasesSet ==
    (cp_pc = "returned" /\ OneOfThreeAliasesFails) =>
        /\ DstVersionCreated
        /\ \A i \in DOMAIN alias_error :
              alias_error[i] = "none" =>
                 <<cp_dst_version[1].name, src_registry.version.aliases[i],
                   cp_dst_version[1].version>> \in dst_aliases

\* C2: every tag key handed to create_model_version for a catalog-style
\* destination model is free of ".", with or without lineage tags.
C2_NoDotInCatalogTagKeys ==
    \A i \in DOMAIN dst_versions :
        is_unity_catalog_model(dst_versions[i].name) =>
            \A k \in Keys(dst_versions[i].tags) : ~ContainsDot(k)

\* --------------------------------------------------- claims on the export

\* The run started before the run-start-time filter that was given.
BeforeFilter(r) ==
    /\ ex_args.run_start_time # <<>>
    /\ ex_start_time[r] < ex_args.run_start_time[1]

NotBeforeFilter(r) == ~BeforeFilter(r)

ForcedToFail(r) == r \in ex_fail

\* The manifest's counters are the lengths of the two lists and its
\* failed_runs is the failed list.
ManifestMatchesLists ==
    /\ ex_manifest # <<>>
    /\ ex_manifest[1].num_ok_runs = Len(ok_run_ids)
    /\ ex_manifest[1].num_failed_runs = Len(failed_run_ids)
    /\ ex_manifest[1].failed_runs = failed_run_ids
    /\ ex_manifest[1].runs = ok_run_ids

\* C3 as stated: after orchestration of a batch of N runs of which the set
\* ex_fail is forced to fail, len(ok) + len(failed) = N, no id is in both
\* lists, and the manifest's failed_runs is exactly the forced-failure set.
C3_AsStated ==
    ex_pc = "done" =>
        /\ Len(ok_run_ids) + Len(failed_run_ids) = Len(ex_batch)
        /\ Range(ok_run_ids) \cap Range(failed_run_ids) = {}
        /\ ManifestMatchesLists
        /\ Range(ex_manifest[1].failed_runs) = ex_fail \cap Range(ex_batch)

\* C3 as amended: the same, with N counting the runs of the batch that the
\* start-time filter does not exclude and the forced failures taken among
\* those; the two lists are those runs, in order, split by the outcome.
C3_PartitionOfKeptRuns ==
    ex_pc = "done" =>
        LET kept == SelectSeq(ex_batch, NotBeforeFilter) IN
        /\ Len(ok_run_ids) + Len(failed_run_ids) = Len(kept)
        /\ Range(ok_run_ids) \cap Range(failed_run_ids) = {}
        /\ ManifestMatchesLists
        /\ ex_manifest[1].failed_runs = SelectSeq(kept, ForcedToFail)
        /\ Range(ex_manifest[1].failed_runs) = ex_fail \cap Range(kept)

\* A finished export with a run in each list.
C3_Witness ==
    /\ ex_pc = "done"
    /\ ok_run_ids # <<>>
    /\ failed_run_ids # <<>>

\* C4: no per-run failure (a raising get_run for a listed id, a raising
\* export_run) propagates out of export_experiment.
C4_NoPerRunFailurePropagates ==
    ex_pc = "raised" => ex_result.step \notin {"get_run", "export_run"}

\* C5: with a run-start-time filter T, no run with start_time < T is handed
\* to export_run or is in the ok list or the failed list.
C5_FilterRespected ==
    \A r \in Range(ex_exported) \cup Range(ok_run_ids) \cup Range(failed_run_ids) :
        ~BeforeFilter(r)

\* A finished export of an explicit id list in which the filter excluded a
\* run and let another through.
C5_Witness ==
    /\ ex_pc = "done"
    /\ ExplicitRunIds
    /\ \E i \in DOMAIN ex_batch : BeforeFilter(ex_batch[i])
    /\ ex_exported # <<>>

\* C6: an export that ends with zero matching runs (no run enumerated, or
\* every enumerated run excluded by the start-time filter) has ok = [] and
\* failed = [], has written the manifest, and ends with the warning.
C6_ZeroRunsEndWithWarning ==
    (ex_pc = "done" /\ \A i \in DOMAIN ex_batch : BeforeFilter(ex_batch[i])) =>
        /\ ok_run_ids = <<>>
        /\ failed_run_ids = <<>>
        /\ ex_manifest # <<>>
        /\ ex_log = "warning"

\* ---------------------------------------------- claims on the HTTP client

\* A verb method has been called and the server has answered.
HasResponse == ht_last.kind \in {"RemoteApiError", "returned", "JSONDecodeError"}

\* C7: for every verb, a response with a status code below 200 or above 299
\* raises the remote-API error carrying the status code, the reason, the
\* request URI, the parameters or body submitted with the request and the
\* response body (parsed, or raw when it does not parse); a 2xx response
\* never raises it.
C7_ErrorCarriesRequestAndResponse ==
    HasResponse =>
        LET rsp == ht_last.rsp[1] IN
        IF rsp.status_code < 200 \/ rsp.status_code > 299
        THEN /\ ht_last.kind = "RemoteApiError"
             /\ ht_last.error[1].http_status_code = rsp.status_code
             /\ ht_last.error[1].http_reason = rsp.reason
             /\ ht_last.error[1].uri = rsp.url
             /\ ht_last.error[1].params = ht_last.call.submitted
             /\ ht_last.error[1].text =
                    (IF rsp.is_json THEN <<"parsed", rsp.text>> ELSE <<"raw", rsp.text>>)
        ELSE ht_last.kind # "RemoteApiError"

\* The client was constructed without an explicit host.
NoExplicitHost == ht_ctor.api_name # "none" /\ ht_ctor.host = <<>>

\* C8 as stated: a client constructed without an explicit host fails with
\* the authentication-configuration error, before any network call, when no
\* endpoint or no credential can be resolved; every request is sent by a
\* client with a resolved (host, credential) pair.
C8_AsStated ==
    NoExplicitHost =>
        /\ (ht_env.host = <<>> \/ ht_env.token = <<>>) =>
              /\ ht_pc = "auth_error"
              /\ ht_last.kind = "AuthConfigurationError"
              /\ ht_sent = {}
        /\ ht_pc = "ready" =>
              /\ ht_client.api_uri[1] = ht_env.host[1]
              /\ ht_client.token # <<>>
        /\ \A r \in ht_sent : r.authorization # <<>>

\* C8 as amended: a client constructed without an explicit host takes host
\* and token from the process-wide configuration; it fails with the
\* authentication-configuration error (status 401), before any network call,
\* exactly when no host is resolved; every request is sent to the resolved
\* host, with a bearer header exactly when a token was resolved.
C8_HostResolvedOrAuthError ==
    NoExplicitHost =>
        /\ ht_env.host = <<>> =>
              /\ ht_pc = "auth_error"
              /\ ht_last.kind = "AuthConfigurationError"
              /\ ht_last.http_status_code = 401
              /\ ht_sent = {}
        /\ ht_env.host # <<>> =>
              /\ ht_pc = "ready"
              /\ ht_client.api_uri = ht_env.host \o <<ht_ctor.api_name>>
              /\ ht_client.token = ht_env.token
        /\ \A r \in ht_sent :
              /\ r.uri[1] = ht_env.host[1]
              /\ r.authorization =
                    (IF ht_env.token = <<>> THEN <<>> ELSE <<"Bearer", ht_env.token[1]>>)

\* The construction without an explicit host has failed: no host is configured.
C8_Witness ==
    /\ NoExplicitHost
    /\ ht_env.host = <<>>
    /\ ht_pc = "auth_error"

\* ------------------------------------------------- claims on the resolver

\* C9: for a source URI of either layout, built from any run id and any
\* model path of one or more segments, the resolver returns exactly that
\* model path (hence the same for both layouts).
C9_ReturnsModelPath ==
    rs_pc = "done" => (rs_result.ok /\ rs_result.path = rs_path)

\* A resolved URI of the locally rooted layout whose model path has several
\* segments.
C9_Witness ==
    /\ rs_pc = "done"
    /\ rs_layout = "oss"
    /\ Len(rs_path) >= 2
    /\ rs_result.ok

\* C10: the resolver applied to an already-resolved path that embeds no run
\* id returns it unchanged or fails with the unrecognized-path error; it
\* never returns a shorter path.
C10_NoDoubleStrip ==
    (rs_pc = "again" /\ rs_run_id \notin Range(rs_source)) =>
        (~rs_result.ok \/ rs_result.path = rs_source)

\* A second resolution of a path with no run id that still holds an
\* "artifacts" segment.
C10_Witness ==
    /\ rs_pc = "again"
    /\ rs_run_id \notin Range(rs_source)
    /\ "artifacts" \in Range(rs_source)

\* ------------------------------------------ claims on the order of the copy

\* The step of the copy a destination write belongs to (1 registered model,
\* 3 run, 6 model version, 7 stage, 8 aliases).
CallStep(c) ==
    CASE c = "create_registered_model" -> 1
      [] c = "create_run" -> 3
      [] c = "create_model_version" -> 6
      [] c = "transition_model_version_stage" -> 7
      [] c = "set_registered_model_alias" -> 8

\* The step of the copy a failing call belongs to (9 is the final re-fetch).
FailedStep(step) ==
    CASE step = "create_registered_model" -> 1
      [] step = "get_model_version" -> 2
      [] step = "resolve_run" -> 3
      [] step = "get_model_name" -> 4
      [] step = "get_run" -> 5
      [] step = "create_model_version" -> 6
      [] step = "transition_model_version_stage" -> 7
      [] step = "set_registered_model_alias" -> 8
      [] step = "refetch" -> 9

\* The destination writes issued so far.
Issued(c) == \E i \in DOMAIN dst_calls : dst_calls[i] = c

\* C11: a failure in one of the steps 1-6 (and in the stage transition or
\* the final re-fetch) leaves copy() as an exception and no write of that
\* step or of a later one has been issued; no failure other than an alias
\* failure is swallowed, so a copy that returns has completed steps 1-6 and,
\* on a classic destination, the stage transition.
C11_FailuresPropagate ==
    /\ cp_result.kind = "raised" => cp_pc = "raised"
    /\ cp_pc = "raised" =>
          /\ cp_result.kind = "raised"
          /\ cp_result.step # "set_registered_model_alias"
          /\ \A i \in DOMAIN dst_calls :
                CallStep(dst_calls[i]) < FailedStep(cp_result.step)
          /\ FailedStep(cp_result.step) <= 6 => ~DstVersionCreated
    /\ cp_pc = "returned" =>
          /\ DstVersionCreated
          /\ Issued("create_registered_model")
          /\ cp_args.dst_experiment_name # <<>> => Issued("create_run")
          /\ Issued("create_model_version")
          /\ ~is_unity_catalog_model(cp_args.dst_model_name) =>
                Issued("transition_model_version_stage")
          /\ cp_result.kind = "returned"
          /\ cp_result.dst_version.name = cp_dst_version[1].name
          /\ cp_result.dst_version.version = cp_dst_version[1].version

\* The stage transition failed after the destination version was created,
\* and the copy raised.
C11_Witness ==
    /\ cp_pc = "raised"
    /\ cp_result.step = "transition_model_version_stage"
    /\ DstVersionCreated

\* Every call of kind c in the destination's log has a call of kind b
\* before it.
Precedes(b, c) ==
    \A i \in DOMAIN dst_calls :
        dst_calls[i] = c => \E k \in 1..(i - 1) : dst_calls[k] = b

\* The writes copy() issues against the destination; none of them deletes.
DestinationWrites ==
    {"create_registered_model", "create_run", "create_model_version",
     "transition_model_version_stage", "set_registered_model_alias"}

\* The record of the version this copy created at the destination.
NewVersionRecords ==
    {dst_versions[i] : i \in {j \in DOMAIN dst_versions :
        /\ cp_dst_version # <<>>
        /\ dst_versions[j].name = cp_dst_version[1].name
        /\ dst_versions[j].version = cp_dst_version[1].version}}

\* The registered model is at the destination before the run is created and
\* before the version is created; the run the version points at was created
\* at the destination before the version (with a destination experiment) or
\* is the source run reused in place (without one); only creating and
\* updating calls are issued.
C12_Order ==
    /\ Precedes("create_registered_model", "create_run")
    /\ Precedes("create_registered_model", "create_model_version")
    /\ cp_args.dst_experiment_name # <<>> =>
          Precedes("create_run", "create_model_version")
    /\ Issued("create_run") => cp_args.dst_model_name \in dst_models
    /\ \A v \in NewVersionRecords :
          /\ v.name \in dst_models
          /\ IF cp_args.dst_experiment_name # <<>>
                THEN v.run_id \in dst_runs
                ELSE v.run_id = src_registry.run.run_id
    /\ \A i \in DOMAIN dst_calls : dst_calls[i] \in DestinationWrites

\* One step of the copy retracts nothing: registered models and runs stay,
\* and every version record stays at its place, unchanged unless it is the
\* version this copy created, whose stage alone may change.
C12_NothingRetracted ==
    /\ dst_models \subseteq dst_models'
    /\ dst_runs \subseteq dst_runs'
    /\ dst_aliases \subseteq dst_aliases'
    /\ \A i \in DOMAIN dst_versions :
          /\ i \in DOMAIN dst_versions'
          /\ \/ dst_versions'[i] = dst_versions[i]
             \/ /\ dst_versions[i] \in NewVersionRecords
                /\ dst_versions'[i] = [dst_versions[i] EXCEPT !.stage = dst_versions'[i].stage]

\* C12: the destination writes of a copy happen in dependency order
\* (registered model, then run, then model version), no delete is issued,
\* and no step - so no failed copy - removes or alters the destination
\* registered model or a version created before.
C12_DependencyOrderNoDelete ==
    /\ []C12_Order
    /\ [][C12_NothingRetracted]_vars

\* A copy into a registered model that already had a version failed after
\* creating the run and the new version; the earlier version is still there.
C12_Witness ==
    /\ cp_pc = "raised"
    /\ Issued("create_run")
    /\ DstVersionCreated
    /\ \E i \in DOMAIN dst_versions :
          dst_versions[i] = PriorVersion(cp_args.dst_model_name)

\* --------------------------------------- claims on the stage transition

\* How many calls of kind c the destination has served.
Count(c) == Cardinality({i \in DOMAIN dst_calls : dst_calls[i] = c})

\* The copy is past the stage-transition step (lines 78-79).
PastTransition ==
    \/ cp_pc \in {"aliases", "refetch", "returned"}
    \/ cp_pc = "raised" /\ cp_result.step = "refetch"

\* C13: once the destination version is created and the copy is past lines
\* 78-79, a classic destination model has had exactly one stage transition,
\* which put the new version in the source version's current stage, and a
\* catalog destination model has had none; a transition comes after the
\* version's creation and before every alias call.
C13_OneTransitionInOrder ==
    /\ PastTransition =>
          /\ NewVersionRecords # {}
          /\ IF is_unity_catalog_model(cp_args.dst_model_name)
                THEN /\ Count("transition_model_version_stage") = 0
                     /\ \A v \in NewVersionRecords : v.stage = "None"
                ELSE /\ Count("transition_model_version_stage") = 1
                     /\ \A v \in NewVersionRecords :
                           v.stage = src_registry.version.current_stage
    /\ is_unity_catalog_model(cp_args.dst_model_name) =>
          Count("transition_model_version_stage") = 0
    /\ Count("transition_model_version_stage") <= 1
    /\ Precedes("create_model_version", "transition_model_version_stage")
    /\ \A i, j \in DOMAIN dst_calls :
          /\ dst_calls[i] = "set_registered_model_alias"
          /\ dst_calls[j] = "transition_model_version_stage"
          => j < i
    /\ ~is_unity_catalog_model(cp_args.dst_model_name) =>
          Precedes("transition_model_version_stage", "set_registered_model_alias")
    /\ (cp_pc = "raised" /\ cp_result.step = "transition_model_version_stage") =>
          /\ ~is_unity_catalog_model(cp_args.dst_model_name)
          /\ ~Issued("set_registered_model_alias")

\* A classic copy of a version in stage Production returned with an alias
\* set: the new version is in Production.
C13_Witness ==
    /\ cp_pc = "returned"
    /\ ~is_unity_catalog_model(cp_args.dst_model_name)
    /\ src_registry.version.current_stage = "Production"
    /\ Issued("set_registered_model_alias")
    /\ \E v \in NewVersionRecords : v.stage = "Production"

====
